---- MODULE Spec2Model ----
(***************************************************************************)
(* Model of the instance-manager reconciliation loop                       *)
(* (internal/scheduler/scheduler.go) over the file store                   *)
(* (pkg/storage/file.go) and the cloud provider interface.                 *)
(*                                                                         *)
(* Time is an integer clock.  The provider is an external collaborator:    *)
(* every call to it returns one of the replies its interface allows.       *)
(***************************************************************************)
EXTENDS Integers, Sequences, FiniteSets, TLC

\* ------------------------------------------------------------------ bounds
\* Largest clock value and largest ExpiresAt of the explored runs.
MaxTime == 1

\* Largest number of Start() calls of the explored runs.
MaxStarts == 2

\* ------------------------------------------------------------- vocabulary
Ids == {"i-1", "i-2"}

\* Lifecycle states as the provider names them (models.Instance.State).
States == {"pending", "running", "stopping", "stopped", "terminating", "terminated"}

\* (PublicIP, PrivateIP) pairs of a record or of a provider reply.
AddrPairs == {<<"", "">>, <<"1.2.3.4", "10.0.0.1">>}

\* The ExpiresAt values of the records the runs start from: with the clock
\* in 0..MaxTime a lease is met before, at and after its expiry.
Expiries == {0, MaxTime}

\* models.Instance, restricted to the fields the scheduler, the commands and
\* the requests read or write, as CreateInstance makes it: launched at clock
\* 0 with ExpiresAt = LaunchTime + Duration.
Instances ==
  { [ID |-> id, State |-> s, PublicIP |-> a[1], PrivateIP |-> a[2],
     LaunchTime |-> 0, Duration |-> e, ExpiresAt |-> 0 + e] :
      id \in Ids, s \in States, a \in AddrPairs, e \in Expiries }

\* models.InstanceStatus as returned by CloudProvider.GetInstanceStatus,
\* together with the error result of the call.
NoReply == [err |-> TRUE, State |-> "", PublicIP |-> "", PrivateIP |-> ""]

ProviderReplies ==
  {NoReply} \cup
  { [err |-> FALSE, State |-> s, PublicIP |-> a[1], PrivateIP |-> a[2]] :
      s \in States, a \in AddrPairs }

\* ------------------------------------------------------------------ state
VARIABLES
  now,        \* the wall clock (time.Now())
  store,      \* the storage file: StorageRecord.Instances, id -> instance
  pc,         \* the scheduler: "idle" between passes, "pass" inside processInstances
  queue,      \* the instances of the running pass that are still to be processed
  listed,     \* the ids the running pass got from ListInstances
  processed,  \* the ids the running pass has processed so far
  failed,     \* the ids whose processing met a failed call in this pass
  cur,        \* what the pass did for the record it processed last: the listed
              \* instance, the clock when its processing began (t0) and ended
              \* (t1), its stored record before and after, and the calls made
  stopCalls,  \* provider StopInstance calls of the current pass, per id
  startCalls, \* provider StartInstance calls of the current pass, per id
  req,        \* the command or web request at work besides the scheduler: its
              \* kind, how far it got, and the instance it read or wrote
  loop,       \* per Start() call, where its run goroutine is
  tick,       \* per run goroutine, whether ticker.C holds an unreceived tick
  lq,         \* per run goroutine, the instances its pass has still to process
  cancelled,  \* whether Stop() has cancelled the scheduler's context
  fs,         \* per FileStorage object writing the file in calls of its own:
              \* the write call it is in or made last, and what it loaded
  wq          \* the instances the web request for the instance list got from
              \* ListInstances and has still to sync

passVars == <<pc, queue, listed, processed, failed, stopCalls, startCalls>>

driverVars == <<loop, tick, lq, cancelled>>

vars == <<now, store, pc, queue, listed, processed, failed, cur, stopCalls, startCalls,
          req, loop, tick, lq, cancelled, fs, wq>>

\* All orders in which a set of records can be listed (Go map iteration order).
RECURSIVE Orderings(_)
Orderings(S) ==
  IF S = {} THEN {<<>>}
  ELSE UNION { { <<x>> \o rest : rest \in Orderings(S \ {x}) } : x \in S }

\* ------------------------------------------------------------ models, store
\* Variant of IsExpired whose boundary is inclusive.
IsExpired_Inclusive(i, t) == t >= i.ExpiresAt

\* Instance.IsExpired at clock reading t: time.Now().After(ExpiresAt).
IsExpired(i, t) == t > i.ExpiresAt

\* Variant of ListInstances that lists every lease as it was created, at
\* expiry 0, whatever the store holds now.
ListInstances_Expired(st) ==
  Orderings({ [st[id] EXCEPT !.ExpiresAt = 0] : id \in DOMAIN st })

\* Variant of ListInstances in which a failed load is not turned into an
\* empty listing.
ListInstances_Strict(st) == Orderings({ st[id] : id \in DOMAIN st })

\* FileStorage.ListInstances: the stored instances, in any order; when the
\* file cannot be loaded the call returns an empty list and no error.
ListInstances(st) == {<<>>} \cup Orderings({ st[id] : id \in DOMAIN st })

\* Variant of UpdateInstance that stores the instance under an absent id.
UpdateInstance_Upsert(st, instance) ==
  { [err |-> TRUE, store |-> st],
    [err |-> FALSE,
     store |-> [id \in DOMAIN st \cup {instance.ID} |->
                  IF id = instance.ID THEN instance ELSE st[id]]] }

\* FileStorage.UpdateInstance: the possible results of one call.  The call
\* fails when the file cannot be loaded or written, or when the id is absent;
\* otherwise the stored instance is replaced by the given one.
UpdateInstance(st, instance) ==
  {[err |-> TRUE, store |-> st]} \cup
  ( IF instance.ID \in DOMAIN st
      THEN {[err |-> FALSE, store |-> [st EXCEPT ![instance.ID] = instance]]}
      ELSE {} )

\* Variant of DeleteInstance that fails for an id the store does not hold.
DeleteInstance_NotFound(st, id) ==
  {[err |-> TRUE, store |-> st]} \cup
  ( IF id \in DOMAIN st
      THEN {[err |-> FALSE, store |-> [i \in DOMAIN st \ {id} |-> st[i]]]}
      ELSE {} )

\* FileStorage.DeleteInstance: the possible results of one call.  The call
\* fails when the file cannot be loaded or written; otherwise the id is
\* taken out of the record set, whether or not it was there.
DeleteInstance(st, id) ==
  { [err |-> TRUE, store |-> st],
    [err |-> FALSE, store |-> [i \in DOMAIN st \ {id} |-> st[i]]] }

\* FileStorage.GetInstance: the possible results of one call.
GetInstance(st, id) ==
  {[err |-> TRUE, instance |-> [ID |-> "", State |-> "", PublicIP |-> "",
                               PrivateIP |-> "", LaunchTime |-> 0,
                               Duration |-> 0, ExpiresAt |-> 0]]} \cup
  ( IF id \in DOMAIN st THEN {[err |-> FALSE, instance |-> st[id]]} ELSE {} )

\* FileStorage.SaveInstance: the possible results of one call.  The instance
\* is put under its id whether or not the id was stored; when the file
\* cannot be loaded the call starts from an empty record set, so that the
\* file it writes holds this instance only.
SaveInstance(st, instance) ==
  { [err |-> TRUE, store |-> st],
    [err |-> FALSE,
     store |-> [id \in DOMAIN st \cup {instance.ID} |->
                  IF id = instance.ID THEN instance ELSE st[id]]],
    [err |-> FALSE, store |-> [id \in {instance.ID} |-> instance]] }

\* ------------------------------------------------------------- durations
\* Duration strings of the extend command and request: an optional minus
\* sign, a number and a unit.  The clock counts hours.
DurationStrings ==
  { [neg |-> n, val |-> 1, unit |-> u] :
      n \in BOOLEAN, u \in {"", "h", " hours", " weeks"} }

\* utils.ParseDuration: a bare number is taken as hours (strconv.Atoi reads
\* the sign), "h" goes through time.ParseDuration (which reads the sign
\* too), "<n> hours" multiplies the Atoi of the first field by an hour, and
\* an unknown unit is an error.  No branch rejects a negative value.
ParseDuration(s) ==
  IF s.unit \in {"", "h", " hours"}
    THEN [err |-> FALSE, d |-> IF s.neg THEN 0 - s.val ELSE s.val]
    ELSE [err |-> TRUE, d |-> 0]

\* ------------------------------------------------------------- scheduler
\* What processInstance has done so far for one record: the store contents,
\* the clock, whether GetInstanceStatus was called and its reply, the result
\* of the stop and start calls ("none" when not called), the UpdateInstance
\* calls in order and the provider methods called, in order.
Outcome(st, t) ==
  [store |-> st, now |-> t, queried |-> FALSE, reply |-> NoReply,
   stop |-> "none", start |-> "none", updates |-> <<>>, calls |-> <<>>]

\* Variant of WithUpdate that reports success without writing the store.
WithUpdate_NoWrite(o, instance) ==
  {[o EXCEPT !.updates = Append(@, [instance |-> instance, err |-> FALSE,
                                    ncalls |-> Len(o.calls)])]}

\* Variant of WithUpdate that writes the instance a second time when the
\* first write succeeded.
WithUpdate_Twice(o, instance) ==
  UNION { IF u.err
            THEN {[o EXCEPT !.updates = Append(@, [instance |-> instance, err |-> TRUE,
                                                   ncalls |-> Len(o.calls)])]}
            ELSE { [o EXCEPT !.store = v.store,
                             !.updates = @ \o <<[instance |-> instance, err |-> FALSE,
                                                 ncalls |-> Len(o.calls)],
                                                [instance |-> instance, err |-> v.err,
                                                 ncalls |-> Len(o.calls)]>>] :
                     v \in UpdateInstance(u.store, instance) } :
          u \in UpdateInstance(o.store, instance) }

\* One call of storage.UpdateInstance(instance) inside processInstance: the
\* error is logged, never returned.  The call is recorded with the number
\* of provider calls processInstance had made before it.
WithUpdate(o, instance) ==
  { [o EXCEPT !.store = u.store,
              !.updates = Append(@, [instance |-> instance, err |-> u.err,
                                     ncalls |-> Len(o.calls)])] :
      u \in UpdateInstance(o.store, instance) }

\* Variant of IsTerminal that forgets the terminating state.
IsTerminal_TerminatedOnly(state) == state = "terminated"

\* processInstance, line 125: terminal records are skipped.
IsTerminal(state) == state \in {"terminated", "terminating"}

\* Variant of StateChanged that reports drift for every record.
StateChanged_Always(status, instance) == TRUE

\* processInstance, line 138: the drift test.
StateChanged(status, instance) == status.State # instance.State

\* Variant of SyncState that forgets to copy the private address.
SyncState_NoPrivateIP(instance, status) ==
  [instance EXCEPT !.State = status.State, !.PublicIP = status.PublicIP]

\* processInstance, lines 144-146: the live fields are copied into the instance.
SyncState(instance, status) ==
  [instance EXCEPT !.State = status.State,
                   !.PublicIP = status.PublicIP,
                   !.PrivateIP = status.PrivateIP]

\* Variant of ShouldStop that forgets the pending state.
ShouldStop_RunningOnly(status) == status.State = "running"

\* Variant of ShouldStop that stops whatever is not reported as stopping or
\* stopped.
ShouldStop_NotStopped(status) == status.State \notin {"stopping", "stopped"}

\* processInstance, line 156: an expired instance is stopped only when live.
ShouldStop(status) == status.State \in {"running", "pending"}

\* Variant of ShouldStart that forgets the stopping state.
ShouldStart_StoppedOnly(instance, status, t) ==
  instance.ExpiresAt > t /\ status.State = "stopped"

\* processInstance, line 165: an unexpired stopped instance is started.
ShouldStart(instance, status, t) ==
  instance.ExpiresAt > t /\ status.State \in {"stopped", "stopping"}

\* Variant of handleExpiredInstance that writes "stopping" whether or not the
\* stop call succeeded.
handleExpiredInstance_WriteAlways(o, instance) ==
  LET called == [o EXCEPT !.calls = Append(@, "StopInstance")] IN
  WithUpdate([called EXCEPT !.stop = "err"], [instance EXCEPT !.State = "stopping"]) \cup
  WithUpdate([called EXCEPT !.stop = "ok"], [instance EXCEPT !.State = "stopping"])

\* Variant of handleExpiredInstance that records the instance as stopped
\* once the stop call is accepted.
handleExpiredInstance_WritesStopped(o, instance) ==
  LET called == [o EXCEPT !.calls = Append(@, "StopInstance")] IN
  {[called EXCEPT !.stop = "err"]} \cup
  WithUpdate([called EXCEPT !.stop = "ok"], [instance EXCEPT !.State = "stopped"])

\* handleExpiredInstance: StopInstance, then on success State = "stopping"
\* is written to the store.
handleExpiredInstance(o, instance) ==
  LET called == [o EXCEPT !.calls = Append(@, "StopInstance")] IN
  {[called EXCEPT !.stop = "err"]} \cup
  WithUpdate([called EXCEPT !.stop = "ok"], [instance EXCEPT !.State = "stopping"])

\* Variant of handleStoppedInstance that writes "pending" whether or not the
\* start call succeeded.
handleStoppedInstance_WriteAlways(o, instance) ==
  LET called == [o EXCEPT !.calls = Append(@, "StartInstance")] IN
  WithUpdate([called EXCEPT !.start = "err"], [instance EXCEPT !.State = "pending"]) \cup
  WithUpdate([called EXCEPT !.start = "ok"], [instance EXCEPT !.State = "pending"])

\* handleStoppedInstance: StartInstance, then on success State = "pending"
\* is written to the store.
handleStoppedInstance(o, instance) ==
  LET called == [o EXCEPT !.calls = Append(@, "StartInstance")] IN
  {[called EXCEPT !.start = "err"]} \cup
  WithUpdate([called EXCEPT !.start = "ok"], [instance EXCEPT !.State = "pending"])

\* Variant of Decide that terminates an expired live instance and deletes
\* its record instead of stopping it.
Decide_TerminateExpired(o, instance, status) ==
  IF IsExpired(instance, o.now)
    THEN IF ShouldStop(status)
           THEN {[o EXCEPT !.calls = Append(@, "TerminateInstance"),
                           !.store = [id \in DOMAIN o.store \ {instance.ID} |-> o.store[id]]]}
           ELSE {o}
    ELSE UNION { IF ShouldStart(instance, status, t2)
                   THEN handleStoppedInstance([o EXCEPT !.now = t2], instance)
                   ELSE {[o EXCEPT !.now = t2]}
                 : t2 \in o.now..MaxTime }

\* processInstance, lines 153-167: the expiry and restart decisions.  The
\* clock is read by IsExpired and, for an unexpired record, once more by the
\* restart test; it may have advanced in between.
Decide(o, instance, status) ==
  IF IsExpired(instance, o.now)
    THEN IF ShouldStop(status)
           THEN handleExpiredInstance(o, instance)
           ELSE {o}
    ELSE UNION { IF ShouldStart(instance, status, t2)
                   THEN handleStoppedInstance([o EXCEPT !.now = t2], instance)
                   ELSE {[o EXCEPT !.now = t2]}
                 : t2 \in o.now..MaxTime }

\* Variant of AfterStatus that decides on the state the record was stored
\* with instead of the state the provider reported.
AfterStatus_StaleDecision(o, instance, status) ==
  LET stale == [status EXCEPT !.State = instance.State] IN
  IF StateChanged(status, instance)
    THEN UNION { Decide(o2, SyncState(instance, status), stale) :
                   o2 \in WithUpdate(o, SyncState(instance, status)) }
    ELSE Decide(o, instance, stale)

\* Variant of AfterStatus that gives the record up when the write of the
\* drift sync fails.
AfterStatus_AbortOnWriteError(o, instance, status) ==
  IF StateChanged(status, instance)
    THEN UNION { IF o2.updates[Len(o2.updates)].err
                   THEN {o2}
                   ELSE Decide(o2, SyncState(instance, status), status) :
                 o2 \in WithUpdate(o, SyncState(instance, status)) }
    ELSE Decide(o, instance, status)

\* processInstance, lines 137-151: the drift sync, then the decisions.
AfterStatus(o, instance, status) ==
  IF StateChanged(status, instance)
    THEN UNION { Decide(o2, SyncState(instance, status), status) :
                   o2 \in WithUpdate(o, SyncState(instance, status)) }
    ELSE Decide(o, instance, status)

\* Variant of OnStatusError that carries on with the stored state.
OnStatusError_FallThrough(o, instance) ==
  Decide(o, instance, [err |-> FALSE, State |-> instance.State,
                       PublicIP |-> instance.PublicIP, PrivateIP |-> instance.PrivateIP])

\* processInstance, lines 132-135: a failed status query ends the processing
\* of the record.
OnStatusError(o, instance) == {o}

\* Scheduler.processInstance for one listed instance, started with store
\* contents st at clock t, when GetInstanceStatus (if it is called) returns
\* reply: the set of its possible outcomes.
processInstanceWith(st, t, instance, reply) ==
  IF IsTerminal(instance.State)
    THEN {Outcome(st, t)}
    ELSE IF reply.err
           THEN OnStatusError([Outcome(st, t) EXCEPT !.queried = TRUE,
                                                     !.calls = <<"GetInstanceStatus">>],
                              instance)
           ELSE AfterStatus([Outcome(st, t) EXCEPT !.queried = TRUE, !.reply = reply,
                                                   !.calls = <<"GetInstanceStatus">>],
                            instance, reply)

\* Scheduler.processInstance: the provider may return any reply.
processInstance(st, t, instance) ==
  UNION { processInstanceWith(st, t, instance, reply) : reply \in ProviderReplies }

\* Whether the processing of a record met a failed provider or store call.
Failed(o) ==
  \/ o.queried /\ o.reply.err
  \/ o.stop = "err"
  \/ o.start = "err"
  \/ \E k \in 1..Len(o.updates) : o.updates[k].err

\* Variant of Remaining that abandons the pass after a failure.
Remaining_AbortOnFailure(q, o) == IF Failed(o) THEN <<>> ELSE Tail(q)

\* processInstances, lines 98-100: the loop goes on to the next listed
\* instance whatever happened to the current one.
Remaining(q, o) == Tail(q)

\* ----------------------------------------------------------------- actions
\* The stored record of id, or NoRecord when the store has none.
NoRecord ==
  [ID |-> "", State |-> "", PublicIP |-> "", PrivateIP |-> "",
   LaunchTime |-> 0, Duration |-> 0, ExpiresAt |-> 0]

Stored(st, id) == IF id \in DOMAIN st THEN st[id] ELSE NoRecord

NoCur ==
  [id |-> "", instance |-> NoRecord, t0 |-> 0, t1 |-> 0,
   before |-> NoRecord, after |-> NoRecord,
   queried |-> FALSE, reply |-> NoReply, stop |-> "none", start |-> "none",
   updates |-> <<>>, calls |-> <<>>, prevStop |-> "none"]

ZeroCalls == [id \in Ids |-> 0]

Stores == UNION { [D -> Instances] : D \in SUBSET Ids }

\* The FileStorage objects that write the file in the runs of store calls:
\* each process (service, command) makes its own with NewFileStorage on the
\* same path, with a mutex of its own.
Handles == {"service", "cli"}

\* The write calls of FileStorage.
WriteCalls == {"SaveInstance", "UpdateInstance", "DeleteInstance"}

\* The instances the runs of store calls pass to the write calls.
StoreArgs ==
  { i \in Instances :
      i.State \in {"running", "stopped"} /\ i.PublicIP = "" /\ i.ExpiresAt = MaxTime }

\* The FileStorage object has made no write call.
NoCall ==
  [op |-> "none", phase |-> "idle", instance |-> NoRecord, data |-> <<>>, err |-> FALSE]

\* No command or request is at work.
NoReq == [kind |-> "none", phase |-> "idle", id |-> "", d |-> 0, instance |-> NoRecord]

\* The run goroutines that Start() can spawn.
Loops == 1..MaxStarts

\* A scheduler fresh from NewScheduler: no pass, no run goroutine, context
\* not cancelled; no command or request at work.
InitScheduler ==
  /\ now = 0
  /\ pc = "idle"
  /\ queue = <<>>
  /\ listed = {}
  /\ processed = {}
  /\ failed = {}
  /\ cur = NoCur
  /\ stopCalls = ZeroCalls
  /\ startCalls = ZeroCalls
  /\ req = NoReq
  /\ loop = [g \in Loops |-> "none"]
  /\ tick = [g \in Loops |-> FALSE]
  /\ lq = [g \in Loops |-> <<>>]
  /\ cancelled = FALSE
  /\ fs = [h \in Handles |-> NoCall]
  /\ wq = <<>>

Init ==
  /\ store \in { st \in Stores : \A id \in DOMAIN st : st[id].ID = id }
  /\ InitScheduler

\* The clock advances, between passes and between the records of a pass.
Tick ==
  /\ now < MaxTime
  /\ now' = now + 1
  /\ UNCHANGED <<store, pc, queue, listed, processed, failed, cur, stopCalls, startCalls>>
  /\ UNCHANGED <<req, loop, tick, lq, cancelled, fs, wq>>

\* RunOnce, or a timer tick of run: processInstances lists the store.
RunOnce ==
  /\ pc = "idle"
  /\ \E l \in ListInstances(store) :
       /\ queue' = l
       /\ listed' = { l[k].ID : k \in 1..Len(l) }
  /\ pc' = "pass"
  /\ UNCHANGED <<now, store, processed, failed, cur, stopCalls, startCalls>>
  /\ UNCHANGED <<req, loop, tick, lq, cancelled, fs, wq>>

\* One iteration of the loop of processInstances.
ProcessNext ==
  /\ pc = "pass"
  /\ queue # <<>>
  /\ LET instance == Head(queue) IN
       \E o \in processInstance(store, now, instance) :
         /\ store' = o.store
         /\ now' = o.now
         /\ cur' = [id |-> instance.ID, instance |-> instance, t0 |-> now, t1 |-> o.now,
                    before |-> Stored(store, instance.ID),
                    after |-> Stored(o.store, instance.ID),
                    queried |-> o.queried, reply |-> o.reply,
                    stop |-> o.stop, start |-> o.start, updates |-> o.updates,
                    calls |-> o.calls, prevStop |-> "none"]
         /\ stopCalls' = [stopCalls EXCEPT ![instance.ID] =
                            @ + (IF o.stop = "none" THEN 0 ELSE 1)]
         /\ startCalls' = [startCalls EXCEPT ![instance.ID] =
                             @ + (IF o.start = "none" THEN 0 ELSE 1)]
         /\ processed' = processed \cup {instance.ID}
         /\ failed' = IF Failed(o) THEN failed \cup {instance.ID} ELSE failed
         /\ queue' = Remaining(queue, o)
  /\ UNCHANGED <<pc, listed>>
  /\ UNCHANGED <<req, loop, tick, lq, cancelled, fs, wq>>

\* The loop of processInstances is over: the pass returns, and what it
\* recorded about its records is dropped.
PassDone ==
  /\ pc = "pass"
  /\ queue = <<>>
  /\ pc' = "idle"
  /\ listed' = {}
  /\ processed' = {}
  /\ failed' = {}
  /\ cur' = NoCur
  /\ stopCalls' = ZeroCalls
  /\ startCalls' = ZeroCalls
  /\ UNCHANGED <<now, store, queue>>
  /\ UNCHANGED <<req, loop, tick, lq, cancelled, fs, wq>>

Next == Tick \/ RunOnce \/ ProcessNext \/ PassDone

Spec == Init /\ [][Next]_vars

\* ------------------------------------------------- commands and requests
\* The extend command (runExtend), the web extend request
\* (handleExtendInstance) and the web stop request (handleStopInstance) run
\* in processes and goroutines of their own: each reads the record with
\* GetInstance and writes it back with a later, separate store call.

\* The request has read instance and holds it.
Loaded(kind, id, d, instance) ==
  [kind |-> kind, phase |-> "loaded", id |-> id, d |-> d, instance |-> instance]

\* The request has made its store call with result u for instance: after a
\* failed call it is over and leaves nothing behind.
Written(u, instance) ==
  IF u.err THEN NoReq ELSE [req EXCEPT !.phase = "done", !.instance = instance]

\* runExtend, lines 585-597: the duration is parsed and the record read.
\* Extensions that would take ExpiresAt or Duration out of 0..MaxTime are
\* not explored.
runExtendGet(id, s) ==
  /\ req.phase # "loaded"
  /\ ~ParseDuration(s).err
  /\ \E g \in GetInstance(store, id) :
       /\ ~g.err
       /\ g.instance.ExpiresAt + ParseDuration(s).d \in 0..MaxTime
       /\ g.instance.LaunchTime + g.instance.Duration + ParseDuration(s).d \in 0..MaxTime
       /\ req' = Loaded("runExtend", id, ParseDuration(s).d, g.instance)
  /\ UNCHANGED <<now, store, cur>>
  /\ UNCHANGED passVars
  /\ UNCHANGED <<fs, wq>>
  /\ UNCHANGED driverVars

\* runExtend, lines 600-607: ExpiresAt and Duration are moved by the
\* duration and the instance written with UpdateInstance.
runExtendUpdate ==
  /\ req.kind = "runExtend"
  /\ req.phase = "loaded"
  /\ LET instance == [req.instance EXCEPT !.ExpiresAt = @ + req.d,
                                          !.Duration = @ + req.d] IN
       \E u \in UpdateInstance(store, instance) :
         /\ store' = u.store
         /\ req' = Written(u, instance)
  /\ UNCHANGED <<now, cur>>
  /\ UNCHANGED passVars
  /\ UNCHANGED <<fs, wq>>
  /\ UNCHANGED driverVars

\* handleExtendInstance, lines 328-344.
handleExtendGet(id, s) ==
  /\ req.phase # "loaded"
  /\ ~ParseDuration(s).err
  /\ \E g \in GetInstance(store, id) :
       /\ ~g.err
       /\ g.instance.ExpiresAt + ParseDuration(s).d \in 0..MaxTime
       /\ req' = Loaded("handleExtendInstance", id, ParseDuration(s).d, g.instance)
  /\ UNCHANGED <<now, store, cur>>
  /\ UNCHANGED passVars
  /\ UNCHANGED <<fs, wq>>
  /\ UNCHANGED driverVars

\* handleExtendInstance, lines 347-355: ExpiresAt is moved by the duration,
\* Duration is left as it was, and the instance is written with SaveInstance.
handleExtendSave ==
  /\ req.kind = "handleExtendInstance"
  /\ req.phase = "loaded"
  /\ LET instance == [req.instance EXCEPT !.ExpiresAt = @ + req.d] IN
       \E u \in SaveInstance(store, instance) :
         /\ store' = u.store
         /\ req' = Written(u, instance)
  /\ UNCHANGED <<now, cur>>
  /\ UNCHANGED passVars
  /\ UNCHANGED <<fs, wq>>
  /\ UNCHANGED driverVars

\* handleStopInstance, lines 382-390: the provider's StopInstance returned
\* nil and the record was read.
handleStopGet(id) ==
  /\ req.phase # "loaded"
  /\ \E g \in GetInstance(store, id) :
       /\ ~g.err
       /\ req' = Loaded("handleStopInstance", id, 0, g.instance)
  /\ UNCHANGED <<now, store, cur>>
  /\ UNCHANGED passVars
  /\ UNCHANGED <<fs, wq>>
  /\ UNCHANGED driverVars

\* handleStopInstance, lines 392-393: ExpiresAt is set to the clock and the
\* instance written with SaveInstance.
handleStopSave ==
  /\ req.kind = "handleStopInstance"
  /\ req.phase = "loaded"
  /\ LET instance == [req.instance EXCEPT !.ExpiresAt = now] IN
       \E u \in SaveInstance(store, instance) :
         /\ store' = u.store
         /\ req' = Written(u, instance)
  /\ UNCHANGED <<now, cur>>
  /\ UNCHANGED passVars
  /\ UNCHANGED <<fs, wq>>
  /\ UNCHANGED driverVars

\* handleInstances and handleInstanceStatus, lines 116 and 274: the stored
\* instance is out of date when the reported state or an address differs.
OutOfDate(status, instance) ==
  \/ status.PublicIP # instance.PublicIP
  \/ status.PrivateIP # instance.PrivateIP
  \/ status.State # instance.State

\* handleInstances, line 104: the listing is sorted by ExpiresAt, latest
\* first.
SortedByExpiry(l) ==
  \A k \in 1..(Len(l) - 1) : l[k].ExpiresAt >= l[k + 1].ExpiresAt

\* handleInstances, lines 95-106: the web request for the instance list
\* lists the store.
handleInstancesList ==
  /\ req.phase # "loaded"
  /\ \E l \in ListInstances(store) :
       /\ SortedByExpiry(l)
       /\ wq' = l
  /\ req' = Loaded("handleInstances", "", 0, NoRecord)
  /\ UNCHANGED <<now, store, cur>>
  /\ UNCHANGED passVars
  /\ UNCHANGED fs
  /\ UNCHANGED driverVars

\* handleInstances, lines 107-127, one iteration: the provider is asked for
\* the status of the listed instance; when it answers and the instance is
\* out of date, the live fields are copied and the instance is written with
\* SaveInstance, whose error is only logged.
handleInstancesSync ==
  /\ req.kind = "handleInstances"
  /\ req.phase = "loaded"
  /\ wq # <<>>
  /\ \E status \in ProviderReplies :
       IF status.err \/ ~OutOfDate(status, Head(wq))
         THEN store' = store
         ELSE \E u \in SaveInstance(store, SyncState(Head(wq), status)) :
                store' = u.store
  /\ wq' = Tail(wq)
  /\ UNCHANGED <<now, cur, req>>
  /\ UNCHANGED passVars
  /\ UNCHANGED fs
  /\ UNCHANGED driverVars

\* handleInstances, lines 129-135: the loop is over and the response sent.
handleInstancesDone ==
  /\ req.kind = "handleInstances"
  /\ req.phase = "loaded"
  /\ wq = <<>>
  /\ req' = NoReq
  /\ UNCHANGED <<now, store, cur, wq>>
  /\ UNCHANGED passVars
  /\ UNCHANGED fs
  /\ UNCHANGED driverVars

\* handleInstanceStatus, lines 253-261: the record is read.
handleInstanceStatusGet(id) ==
  /\ req.phase # "loaded"
  /\ \E g \in GetInstance(store, id) :
       /\ ~g.err
       /\ req' = Loaded("handleInstanceStatus", id, 0, g.instance)
  /\ UNCHANGED <<now, store, cur>>
  /\ UNCHANGED passVars
  /\ UNCHANGED <<fs, wq>>
  /\ UNCHANGED driverVars

\* handleInstanceStatus, lines 263-285: the provider is asked for the status;
\* when it answers and the instance read is out of date, the live fields are
\* copied and the instance is written with SaveInstance, whose error is only
\* logged.
handleInstanceStatusSync ==
  /\ req.kind = "handleInstanceStatus"
  /\ req.phase = "loaded"
  /\ \E status \in ProviderReplies :
       IF status.err \/ ~OutOfDate(status, req.instance)
         THEN store' = store
         ELSE \E u \in SaveInstance(store, SyncState(req.instance, status)) :
                store' = u.store
  /\ req' = NoReq
  /\ UNCHANGED <<now, cur>>
  /\ UNCHANGED passVars
  /\ UNCHANGED <<fs, wq>>
  /\ UNCHANGED driverVars

\* handleTerminateInstance, lines 418-425: when the provider's
\* TerminateInstance returns nil the record is deleted; the error of
\* DeleteInstance is dropped.
handleTerminateInstance(id) ==
  /\ \E terminated \in BOOLEAN :
       IF terminated
         THEN \E u \in DeleteInstance(store, id) : store' = u.store
         ELSE store' = store
  /\ UNCHANGED <<now, cur, req>>
  /\ UNCHANGED passVars
  /\ UNCHANGED <<fs, wq>>
  /\ UNCHANGED driverVars

\* The stores the runs with commands and requests start from: one record
\* without addresses, stored as running.
InitOps ==
  /\ store \in { st \in Stores :
                   /\ DOMAIN st = {"i-1"}
                   /\ \A id \in DOMAIN st :
                        /\ st[id].ID = id
                        /\ st[id].State = "running"
                        /\ st[id].PublicIP = "" }
  /\ InitScheduler

NextOps ==
  \/ Tick
  \/ RunOnce
  \/ ProcessNext
  \/ PassDone
  \/ \E id \in Ids, s \in DurationStrings : handleExtendGet(id, s)
  \/ handleExtendSave
  \/ \E id \in Ids : handleStopGet(id)
  \/ handleStopSave

\* The scheduler's passes together with one web request at a time.
SpecOps == InitOps /\ [][NextOps]_vars

NextExtend ==
  \/ Tick
  \/ RunOnce
  \/ ProcessNext
  \/ PassDone
  \/ \E id \in Ids, s \in DurationStrings : runExtendGet(id, s)
  \/ runExtendUpdate

NextSync ==
  \/ Tick
  \/ RunOnce
  \/ ProcessNext
  \/ PassDone
  \/ handleInstancesList
  \/ handleInstancesSync
  \/ handleInstancesDone
  \/ \E id \in Ids : handleInstanceStatusGet(id)
  \/ handleInstanceStatusSync
  \/ \E id \in Ids : handleTerminateInstance(id)

\* The runs with syncing and terminating requests start from one running
\* record whose lease ends at 0.
InitSync ==
  /\ InitOps
  /\ store["i-1"].ExpiresAt = 0

\* The scheduler's passes together with the web requests that sync and
\* terminate: one list or status request at a time, and terminate requests
\* at any moment.
SpecSync == InitSync /\ [][NextSync]_vars

\* The stores of the runs of one pass over two records: both ids stored,
\* without addresses.
InitOrder ==
  /\ Init
  /\ DOMAIN store = Ids
  /\ \A id \in Ids : store[id].PublicIP = ""

NextOrder == Tick \/ RunOnce \/ ProcessNext

\* One call of RunOnce on a store of two records.
SpecOrder == InitOrder /\ [][NextOrder]_vars

\* The scheduler's passes together with the extend command.
SpecExtend == InitOps /\ [][NextExtend]_vars

\* ------------------------------------------------------------ the driver
\* Start() spawns a run goroutine with a ticker of its own; Stop() cancels
\* the context all of them select on.  A goroutine is "none" before its
\* Start(), "select" while parked in the select of run, "tick" once the
\* ticker case has been taken, "pass" inside processInstances and "exited"
\* after the ctx.Done() case.

\* Variant of Select that serves a waiting tick before it looks at the
\* context.
Select_TickFirst(done, ticked) ==
  IF ticked THEN {"tick"} ELSE IF done THEN {"exited"} ELSE {}

\* The cases the select of run can take when it is evaluated: every ready
\* one (Go picks among ready cases at random); none when it has to block.
Select(done, ticked) ==
  (IF done THEN {"exited"} ELSE {}) \cup (IF ticked THEN {"tick"} ELSE {})

\* Start, lines 55-61: go s.run().  The new goroutine reaches its select
\* with a fresh ticker.
Start(g) ==
  /\ loop[g] = "none"
  /\ \A h \in Loops : h < g => loop[h] # "none"
  /\ \E c \in (IF Select(cancelled, FALSE) = {}
                 THEN {"select"} ELSE Select(cancelled, FALSE)) :
       loop' = [loop EXCEPT ![g] = c]
  /\ UNCHANGED <<now, store, cur, req, tick, lq, cancelled>>
  /\ UNCHANGED passVars
  /\ UNCHANGED <<fs, wq>>

\* Stop, lines 64-67: the context is cancelled.  A goroutine parked in its
\* select is woken by ctx.Done() and returns.
Stop ==
  /\ ~cancelled
  /\ cancelled' = TRUE
  /\ loop' = [g \in Loops |-> IF loop[g] = "select" THEN "exited" ELSE loop[g]]
  /\ UNCHANGED <<now, store, cur, req, tick, lq>>
  /\ UNCHANGED passVars
  /\ UNCHANGED <<fs, wq>>

\* The ticker of a run goroutine fires.  A goroutine parked in its select
\* is woken with the tick; otherwise the tick waits in ticker.C, which
\* holds one tick and drops the others.
TickerFires(g) ==
  /\ loop[g] \in {"select", "tick", "pass"}
  /\ loop[g] # "select" => ~tick[g]
  /\ loop' = [loop EXCEPT ![g] = IF @ = "select" THEN "tick" ELSE @]
  /\ tick' = [tick EXCEPT ![g] = (loop[g] # "select")]
  /\ UNCHANGED <<now, store, cur, req, lq, cancelled>>
  /\ UNCHANGED passVars
  /\ UNCHANGED <<fs, wq>>

\* run, lines 79-80, and processInstances, lines 90-96: the store is listed.
runTickCase(g) ==
  /\ loop[g] = "tick"
  /\ \E l \in ListInstances(store) : lq' = [lq EXCEPT ![g] = l]
  /\ loop' = [loop EXCEPT ![g] = "pass"]
  /\ UNCHANGED <<now, store, cur, req, tick, cancelled>>
  /\ UNCHANGED passVars
  /\ UNCHANGED <<fs, wq>>

\* One iteration of the loop of processInstances in a run goroutine.  The
\* result of the stop call of the loop's previous processing, when it was of
\* the same record, is kept in prevStop (a pass of RunOnce, which forgets its
\* records when it returns, has none).
runProcessNext(g) ==
  /\ loop[g] = "pass"
  /\ lq[g] # <<>>
  /\ LET instance == Head(lq[g]) IN
       \E o \in processInstance(store, now, instance) :
         /\ store' = o.store
         /\ now' = o.now
         /\ cur' = [id |-> instance.ID, instance |-> instance, t0 |-> now, t1 |-> o.now,
                    before |-> Stored(store, instance.ID),
                    after |-> Stored(o.store, instance.ID),
                    queried |-> o.queried, reply |-> o.reply,
                    stop |-> o.stop, start |-> o.start, updates |-> o.updates,
                    calls |-> o.calls,
                    prevStop |-> IF cur.id = instance.ID THEN cur.stop ELSE "none"]
         /\ lq' = [lq EXCEPT ![g] = Remaining(lq[g], o)]
  /\ UNCHANGED <<req, loop, tick, cancelled>>
  /\ UNCHANGED passVars
  /\ UNCHANGED <<fs, wq>>

\* processInstances returns and run evaluates its select again, lines 74-82.
runSelect(g) ==
  /\ loop[g] = "pass"
  /\ lq[g] = <<>>
  /\ \E c \in (IF Select(cancelled, tick[g]) = {}
                 THEN {"select"} ELSE Select(cancelled, tick[g])) :
       /\ loop' = [loop EXCEPT ![g] = c]
       /\ tick' = [tick EXCEPT ![g] = IF c = "tick" THEN FALSE ELSE @]
  /\ UNCHANGED <<now, store, cur, req, lq, cancelled>>
  /\ UNCHANGED passVars
  /\ UNCHANGED <<fs, wq>>

\* The stores the runs of the driver start from: terminated records, which
\* every pass lists and skips, so that the runs explore how passes are
\* scheduled.
InitDriver ==
  /\ store \in { st \in Stores :
                   \A id \in DOMAIN st :
                     /\ st[id].ID = id
                     /\ st[id].State = "terminated"
                     /\ st[id].PublicIP = ""
                     /\ st[id].ExpiresAt = 0 }
  /\ InitScheduler

NextDriver ==
  \/ Tick
  \/ RunOnce
  \/ ProcessNext
  \/ PassDone
  \/ \E g \in Loops : Start(g)
  \/ Stop
  \/ \E g \in Loops : TickerFires(g)
  \/ \E g \in Loops : runTickCase(g)
  \/ \E g \in Loops : runProcessNext(g)
  \/ \E g \in Loops : runSelect(g)

\* The scheduler with its Start(), Stop() and RunOnce() callers.
SpecDriver == InitDriver /\ [][NextDriver]_vars

\* The provider answers a status query of a run goroutine with an error or
\* with running or pending.
KeepsReportingLive ==
  cur'.queried => (cur'.reply.err \/ cur'.reply.State \in {"running", "pending"})

runProcessNextLive == runProcessNext(1) /\ KeepsReportingLive

\* The status query and the stop call made for a record both succeed.
StopSucceeds == runProcessNextLive /\ cur'.stop = "ok"

\* The service starts with one record whose lease ends at 0.
InitLive ==
  /\ store \in { st \in Stores :
                   /\ DOMAIN st = {"i-1"}
                   /\ \A id \in DOMAIN st :
                        /\ st[id].ID = id
                        /\ st[id].State \in {"running", "pending"}
                        /\ st[id].ExpiresAt = 0 }
  /\ InitScheduler

NextLive ==
  \/ Tick
  \/ Start(1)
  \/ TickerFires(1)
  \/ runTickCase(1)
  \/ runProcessNextLive
  \/ runSelect(1)

\* The service command: Start() is called once, the ticker keeps firing,
\* the run goroutine keeps running, and the provider, which reports the
\* instance as running or pending whenever it answers, does not fail the
\* status query and the stop call for ever.
SpecLive ==
  /\ InitLive
  /\ [][NextLive]_vars
  /\ WF_vars(Start(1))
  /\ WF_vars(TickerFires(1))
  /\ WF_vars(runTickCase(1))
  /\ WF_vars(runProcessNextLive)
  /\ WF_vars(runSelect(1))
  /\ SF_vars(StopSucceeds)

\* The service command with any provider replies: Start() is called once and
\* the run goroutine takes its ticks.
NextRun ==
  \/ Tick
  \/ Start(1)
  \/ TickerFires(1)
  \/ runTickCase(1)
  \/ runProcessNext(1)
  \/ runSelect(1)

SpecRun == InitLive /\ [][NextRun]_vars

\* The select of run is evaluated and takes the ctx.Done() case.
runSelectExits == runSelect(1) /\ loop'[1] = "exited"

NextStop ==
  \/ Tick
  \/ Start(1)
  \/ Stop
  \/ TickerFires(1)
  \/ runTickCase(1)
  \/ runProcessNext(1)
  \/ runSelect(1)

\* The service command with a caller of Stop(): the store and provider calls
\* of a pass return (weak fairness of the steps of processInstances), and a
\* select evaluated again and again with ctx.Done() ready takes that case at
\* some point (Go chooses among the ready cases of a select uniformly at
\* random).
SpecStop ==
  /\ InitLive
  /\ [][NextStop]_vars
  /\ WF_vars(runTickCase(1))
  /\ WF_vars(runProcessNext(1))
  /\ SF_vars(runSelectExits)

\* The provider reports the instance as the scheduler left it: running or
\* pending for a record listed as running or pending, stopping or stopped
\* for any other, with the listed addresses, when it answers the status
\* query of a run goroutine.
ProviderFollows ==
  (cur'.queried /\ ~cur'.reply.err) =>
    /\ IF cur'.instance.State \in {"running", "pending"}
         THEN cur'.reply.State \in {"running", "pending"}
         ELSE cur'.reply.State \in {"stopping", "stopped"}
    /\ cur'.reply.PublicIP = cur'.instance.PublicIP
    /\ cur'.reply.PrivateIP = cur'.instance.PrivateIP

runProcessNextFollowed == runProcessNext(1) /\ ProviderFollows

\* The status query made for a record succeeds.
QuerySucceeds == runProcessNextFollowed /\ cur'.queried /\ ~cur'.reply.err

\* The run goroutine lists the store and the file could be loaded.
ListSucceeds == runTickCase(1) /\ lq'[1] # <<>>

\* The duration strings of the extensions of the lease by whole hours.
HourStrings == { s \in DurationStrings : ~s.neg /\ s.unit = "h" }

\* The service starts with one running record whose lease of duration 0
\* ended before the clock's origin.
InitRestart ==
  /\ store = [id \in {"i-1"} |->
               [ID |-> id, State |-> "running", PublicIP |-> "", PrivateIP |-> "",
                LaunchTime |-> 0 - 1, Duration |-> 0, ExpiresAt |-> 0 - 1]]
  /\ InitScheduler

NextRestart ==
  \/ Tick
  \/ Start(1)
  \/ TickerFires(1)
  \/ runTickCase(1)
  \/ runProcessNextFollowed
  \/ runSelect(1)
  \/ \E s \in HourStrings : runExtendGet("i-1", s)
  \/ runExtendUpdate

\* The service command together with the extend command: Start() is called
\* once, the ticker keeps firing, the run goroutine keeps running, and the
\* store listing and the provider's status query do not fail for ever.
SpecRestart ==
  /\ InitRestart
  /\ [][NextRestart]_vars
  /\ WF_vars(Start(1))
  /\ WF_vars(TickerFires(1))
  /\ WF_vars(runTickCase(1))
  /\ WF_vars(runProcessNextFollowed)
  /\ WF_vars(runSelect(1))
  /\ SF_vars(ListSucceeds)
  /\ SF_vars(QuerySucceeds)

\* ------------------------------------------------------------ store calls
\* The result of the write call op with argument instance on the record set
\* data that it loaded.
Modified(op, data, instance) ==
  IF op = "SaveInstance" THEN SaveInstance(data, instance)
  ELSE IF op = "UpdateInstance" THEN UpdateInstance(data, instance)
  ELSE DeleteInstance(data, instance.ID)

\* A write call of the FileStorage object h takes the object's mutex and
\* loads the file (loadData).  The mutex keeps a second call of the same
\* object out; it is unknown to the other objects.
fsLoad(h, op, instance) ==
  /\ fs[h].phase = "idle"
  /\ fs' = [fs EXCEPT ![h] = [op |-> op, phase |-> "loaded", instance |-> instance,
                              data |-> store, err |-> FALSE]]
  /\ UNCHANGED <<now, store, cur, req, wq>>
  /\ UNCHANGED passVars
  /\ UNCHANGED driverVars

\* The write call of h changes the record set it loaded, writes the whole of
\* it to the file (saveData) and returns; a call that fails leaves the file
\* as it is.
fsSave(h) ==
  /\ fs[h].phase = "loaded"
  /\ \E u \in Modified(fs[h].op, fs[h].data, fs[h].instance) :
       /\ store' = IF u.err THEN store ELSE u.store
       /\ fs' = [fs EXCEPT ![h] = [@ EXCEPT !.phase = "idle", !.data = <<>>,
                                            !.err = u.err]]
  /\ UNCHANGED <<now, cur, req, wq>>
  /\ UNCHANGED passVars
  /\ UNCHANGED driverVars

\* A storage file that has never been written.
InitStore ==
  /\ store = <<>>
  /\ InitScheduler

\* The write calls made through one FileStorage object, one after another.
NextStore ==
  \/ \E op \in WriteCalls, instance \in StoreArgs : fsLoad("cli", op, instance)
  \/ fsSave("cli")

SpecStore == InitStore /\ [][NextStore]_vars

\* The write calls made through the FileStorage objects of two processes.
NextFiles ==
  \/ \E h \in Handles, op \in WriteCalls, instance \in StoreArgs : fsLoad(h, op, instance)
  \/ \E h \in Handles : fsSave(h)

SpecFiles == InitStore /\ [][NextFiles]_vars

\* ------------------------------------------------------------------ claims
\* The pass has processed a record (cur describes it).
Processed == cur.id # ""

\* The record was listed with a non-terminal state and its status query
\* succeeded.
LiveKnown ==
  /\ Processed
  /\ cur.instance.State \notin {"terminated", "terminating"}
  /\ cur.queried
  /\ ~cur.reply.err

\* In every pass, every id gets at most one stop or start call in total.
OneCallPerPass == \A id \in Ids : stopCalls[id] + startCalls[id] <= 1

\* C1: a record listed non-terminal whose status query succeeds with running
\* or pending and whose ExpiresAt is before the clock gets exactly one
\* StopInstance call in the pass and no StartInstance call.
C1_ExpiryTriggersStop ==
  /\ OneCallPerPass
  /\ ( /\ LiveKnown
       /\ cur.reply.State \in {"running", "pending"}
       /\ cur.instance.ExpiresAt < cur.t0 )
     => /\ cur.stop # "none"
        /\ cur.start = "none"
        /\ stopCalls[cur.id] = 1
        /\ startCalls[cur.id] = 0

\* C1 witness: an expired record reported pending was stopped once.
C1_Witness ==
  /\ LiveKnown
  /\ cur.reply.State = "pending"
  /\ cur.instance.ExpiresAt < cur.t0
  /\ cur.stop = "ok"
  /\ stopCalls[cur.id] = 1
  /\ startCalls[cur.id] = 0

\* C2: a record listed non-terminal whose lease is still unexpired when its
\* processing ends and whose status query succeeds with stopped or stopping
\* gets exactly one StartInstance call in the pass and no StopInstance call.
C2_ExtensionTriggersRestart ==
  /\ OneCallPerPass
  /\ ( /\ LiveKnown
       /\ cur.reply.State \in {"stopped", "stopping"}
       /\ cur.instance.ExpiresAt > cur.t1 )
     => /\ cur.start # "none"
        /\ cur.stop = "none"
        /\ startCalls[cur.id] = 1
        /\ stopCalls[cur.id] = 0

\* C2 witness: an unexpired record reported stopping was started once.
C2_Witness ==
  /\ LiveKnown
  /\ cur.reply.State = "stopping"
  /\ cur.instance.ExpiresAt > cur.t1
  /\ cur.start = "ok"
  /\ startCalls[cur.id] = 1
  /\ stopCalls[cur.id] = 0

\* The listed instance carrying the state and addresses the provider reported.
Reported ==
  [cur.instance EXCEPT !.State = cur.reply.State,
                       !.PublicIP = cur.reply.PublicIP,
                       !.PrivateIP = cur.reply.PrivateIP]

\* No UpdateInstance call made for the record failed.
WritesOk == \A k \in 1..Len(cur.updates) : ~cur.updates[k].err

\* The provider action of an outcome: which of stop and start was called.
ActionOf(o) == <<o.stop # "none", o.start # "none">>

\* The record of the C3 scenario: stored running, reported stopped, lease
\* unexpired when its processing ends.
C3_Scenario ==
  /\ LiveKnown
  /\ cur.instance.State = "running"
  /\ cur.reply.State = "stopped"
  /\ cur.instance.ExpiresAt > cur.t1

\* C3 as stated: in the scenario the record is synced to stopped in the
\* store, started once, and ends stored as pending.
C3_Original ==
  C3_Scenario =>
    /\ Len(cur.updates) = 2
    /\ cur.updates[1].instance.State = "stopped"
    /\ ~cur.updates[1].err
    /\ startCalls[cur.id] = 1
    /\ cur.after.State = "pending"

\* C3, amended: the stop/start decision is made on the reported state.  In
\* the scenario the pass first writes the record synced to stopped, then
\* calls start exactly once and never stop; when the start call and the store
\* writes succeed the record ends stored as pending.  The provider action
\* does not depend on the non-terminal state the record was stored with.
C3_DriftSyncPrecedesDecision ==
  /\ C3_Scenario =>
       /\ Len(cur.updates) >= 1
       /\ cur.updates[1].instance = Reported
       /\ cur.start # "none"
       /\ cur.stop = "none"
       /\ startCalls[cur.id] = 1
       /\ stopCalls[cur.id] = 0
       /\ (cur.start = "ok" /\ WritesOk) =>
            /\ Len(cur.updates) = 2
            /\ cur.after = [Reported EXCEPT !.State = "pending"]
  /\ (LiveKnown /\ cur.id \in DOMAIN store) =>
       \A s2 \in States \ {"terminated", "terminating"} :
         LET other == [cur.instance EXCEPT !.State = s2]
             outs == { o \in processInstanceWith([store EXCEPT ![cur.id] = other],
                                                 cur.t0, other, cur.reply) :
                         o.now = cur.t1 }
         IN /\ outs # {}
            /\ \A o \in outs : ActionOf(o) = ActionOf(cur)

\* C3 witness: the scenario ran to the end, the record is stored as pending
\* after a sync to stopped.
C3_Witness ==
  /\ C3_Scenario
  /\ cur.start = "ok"
  /\ WritesOk
  /\ Len(cur.updates) = 2
  /\ cur.updates[1].instance.State = "stopped"
  /\ cur.after.State = "pending"

\* C4, state part: a record listed as terminated or terminating gets no
\* provider call and no store write.
C4_Skipped ==
  (Processed /\ cur.instance.State \in {"terminated", "terminating"}) =>
    /\ ~cur.queried
    /\ cur.stop = "none"
    /\ cur.start = "none"
    /\ cur.updates = <<>>
    /\ cur.after = cur.before
    /\ stopCalls[cur.id] = 0
    /\ startCalls[cur.id] = 0

\* C4, step part: a step of a pass leaves every record that is stored as
\* terminal in the store, unchanged.
C4_Frozen ==
  Len(queue') < Len(queue) =>
    \A id \in DOMAIN store :
      ( /\ store[id].State \in {"terminated", "terminating"}
        /\ Head(queue).ID = id => Head(queue) = store[id] )
      => id \in DOMAIN store' /\ store'[id] = store[id]

\* C4: terminal records are untouched by every pass, whatever their
\* ExpiresAt: no status query, no stop, no start, no store write; a record
\* stored as terminal is never changed by a pass.
C4_TerminalUntouched == [](C4_Skipped) /\ [][C4_Frozen]_vars

\* C4 witness: an expired record listed as terminating was skipped.
C4_Witness ==
  /\ Processed
  /\ cur.instance.State = "terminating"
  /\ cur.instance.ExpiresAt < cur.t0
  /\ ~cur.queried
  /\ cur.after = cur.before

\* C5: when the status query of a record fails, the pass calls neither stop
\* nor start for it and makes no store write for it: its stored record is
\* the same before and after.
C5_QueryFailureSkips ==
  (Processed /\ cur.queried /\ cur.reply.err) =>
    /\ cur.stop = "none"
    /\ cur.start = "none"
    /\ cur.updates = <<>>
    /\ cur.after = cur.before
    /\ stopCalls[cur.id] = 0
    /\ startCalls[cur.id] = 0

\* C5 witness: the status query of an expired record stored as running
\* failed.
C5_Witness ==
  /\ Processed
  /\ cur.queried
  /\ cur.reply.err
  /\ cur.instance.State = "running"
  /\ cur.instance.ExpiresAt < cur.t0
  /\ cur.after = cur.before

\* The stored record the pass owes the processed record: the reported state
\* and addresses when the reported state differs from the listed one, then
\* stopping after a successful stop and pending after a successful start.
Owed ==
  LET base == IF cur.reply.State # cur.instance.State THEN Reported ELSE cur.instance
  IN IF cur.stop = "ok" THEN [base EXCEPT !.State = "stopping"]
     ELSE IF cur.start = "ok" THEN [base EXCEPT !.State = "pending"]
     ELSE base

\* C6: every listed record is processed in every pass, and a record
\* processed after another record of the pass met a failure (status query,
\* stop, start or store write) still gets its action and its stored update.
C6_Isolation ==
  /\ pc = "pass" =>
       /\ processed \subseteq listed
       /\ listed \ processed = { queue[k].ID : k \in 1..Len(queue) }
       /\ queue = <<>> => processed = listed
  /\ (LiveKnown /\ failed \ {cur.id} # {}) =>
       /\ (cur.reply.State \in {"running", "pending"} /\ cur.instance.ExpiresAt < cur.t0)
            => cur.stop # "none"
       /\ (cur.reply.State \in {"stopped", "stopping"} /\ cur.instance.ExpiresAt > cur.t1)
            => cur.start # "none"
       /\ cur.id \notin failed => cur.after = Owed

\* C6 witness: after the other record of the pass met a failure, an expired
\* record reported running was stopped and stored as stopping, and the pass
\* has processed all it listed.
C6_Witness ==
  /\ LiveKnown
  /\ failed \ {cur.id} # {}
  /\ cur.id \notin failed
  /\ cur.reply.State = "running"
  /\ cur.stop = "ok"
  /\ cur.after.State = "stopping"
  /\ cur.before.State # "stopping"
  /\ queue = <<>>
  /\ processed = listed

\* The states the pass wrote into the store for the processed record.
StatesWritten ==
  { cur.updates[k].instance.State : k \in { j \in 1..Len(cur.updates) : ~cur.updates[j].err } }

\* C7 as stated: after a successful stop the stored state is stopping, after
\* a successful start it is pending, and when the stop or start call fails
\* the pass writes neither stopping nor pending to the store.
C7_Original ==
  Processed =>
    /\ cur.stop = "ok" => cur.after.State = "stopping"
    /\ cur.start = "ok" => cur.after.State = "pending"
    /\ (cur.stop = "err" \/ cur.start = "err")
         => StatesWritten \cap {"stopping", "pending"} = {}

\* C7, amended: after a successful stop call the pass writes stopping for
\* the record as its last store write, and the stored state is stopping when
\* that write succeeds; likewise pending after a successful start call.
\* When the stop or start call fails, every state the pass writes for the
\* record is the state the provider reported, never the optimistic one
\* (stopping for a failed stop, pending for a failed start).  A state other
\* than the reported one is written only after a successful call.
C7_OptimisticWrite ==
  Processed =>
    LET n == Len(cur.updates) IN
    /\ cur.stop = "ok" =>
         /\ n >= 1
         /\ cur.updates[n].instance.State = "stopping"
         /\ ~cur.updates[n].err => cur.after.State = "stopping"
    /\ cur.start = "ok" =>
         /\ n >= 1
         /\ cur.updates[n].instance.State = "pending"
         /\ ~cur.updates[n].err => cur.after.State = "pending"
    /\ cur.stop = "err" =>
         \A k \in 1..n : cur.updates[k].instance.State = cur.reply.State
                         /\ cur.updates[k].instance.State # "stopping"
    /\ cur.start = "err" =>
         \A k \in 1..n : cur.updates[k].instance.State = cur.reply.State
                         /\ cur.updates[k].instance.State # "pending"
    /\ \A k \in 1..n :
         cur.updates[k].instance.State # cur.reply.State =>
           /\ k = n
           /\ \/ cur.stop = "ok" /\ cur.updates[k].instance.State = "stopping"
              \/ cur.start = "ok" /\ cur.updates[k].instance.State = "pending"

\* C7 witness: a stop call failed after the pass had synced the record to
\* the reported state pending.
C7_Witness ==
  /\ Processed
  /\ cur.stop = "err"
  /\ cur.reply.State = "pending"
  /\ StatesWritten = {"pending"}
  /\ cur.after.State = "pending"
  /\ cur.before.State = "running"

\* C8 as stated: a failed status query, stop call or start call leaves the
\* stored record exactly as it was.
C8_Original ==
  (Processed /\ ((cur.queried /\ cur.reply.err) \/ cur.stop = "err" \/ cur.start = "err"))
    => cur.after = cur.before

\* C8, amended: a failed status query leaves the stored record exactly as it
\* was.  A failed stop or start call leaves it without the optimistic state:
\* the stored record is then unchanged when the reported state equals the
\* stored one, and otherwise either unchanged or synced to the reported state
\* and addresses.
C8_FailedCallLeavesRecord ==
  Processed =>
    /\ (cur.queried /\ cur.reply.err) => cur.after = cur.before
    /\ (cur.stop = "err" \/ cur.start = "err") =>
         /\ cur.after \in {cur.before, Reported}
         /\ cur.reply.State = cur.instance.State => cur.after = cur.before
         /\ (cur.reply.State # cur.instance.State /\ WritesOk) => cur.after = Reported

\* C8 witness: a start call failed and the stored record, which differed
\* from the reported state, is now the synced one.
C8_Witness ==
  /\ Processed
  /\ cur.start = "err"
  /\ cur.after = Reported
  /\ cur.after # cur.before

\* The record whose reported state differs from the listed one and for which
\* the pass issued neither stop nor start.
C9_Case ==
  /\ LiveKnown
  /\ cur.reply.State # cur.instance.State
  /\ cur.stop = "none"
  /\ cur.start = "none"

\* C9 as stated: in that case the stored state and addresses are the
\* reported ones after the pass.
C9_Original ==
  C9_Case =>
    /\ cur.after.State = cur.reply.State
    /\ cur.after.PublicIP = cur.reply.PublicIP
    /\ cur.after.PrivateIP = cur.reply.PrivateIP

\* C9, amended: in that case the pass makes exactly one store write, of the
\* record with the reported state and addresses, and when that write
\* succeeds the stored state and addresses are the reported ones.
C9_StateDriftSync ==
  C9_Case =>
    /\ Len(cur.updates) = 1
    /\ cur.updates[1].instance = Reported
    /\ ~cur.updates[1].err =>
         /\ cur.after.State = cur.reply.State
         /\ cur.after.PublicIP = cur.reply.PublicIP
         /\ cur.after.PrivateIP = cur.reply.PrivateIP
         /\ cur.after.ExpiresAt = cur.before.ExpiresAt

\* C9 witness: a record stored as pending without addresses was synced to
\* running with the reported addresses.
C9_Witness ==
  /\ C9_Case
  /\ cur.before.State = "pending"
  /\ cur.before.PrivateIP = ""
  /\ cur.reply.State = "running"
  /\ cur.reply.PrivateIP # ""
  /\ ~cur.updates[1].err
  /\ cur.after = Reported

\* C10: when the reported state equals the stored one but a reported address
\* differs from the stored one, the pass writes the reported addresses into
\* the stored record.
C10_AddressDriftSynced ==
  ( /\ LiveKnown
    /\ cur.reply.State = cur.instance.State
    /\ \/ cur.reply.PublicIP # cur.instance.PublicIP
       \/ cur.reply.PrivateIP # cur.instance.PrivateIP
    /\ WritesOk )
  => /\ cur.after.PublicIP = cur.reply.PublicIP
     /\ cur.after.PrivateIP = cur.reply.PrivateIP

\* The live state and addresses the provider reported are the stored ones.
NoDrift ==
  /\ cur.reply.State = cur.instance.State
  /\ cur.reply.PublicIP = cur.instance.PublicIP
  /\ cur.reply.PrivateIP = cur.instance.PrivateIP

\* The cases of C11: nothing differs and the lease asks for nothing.
C11_Case ==
  /\ LiveKnown
  /\ NoDrift
  /\ \/ cur.instance.ExpiresAt > cur.t0 /\ cur.reply.State \in {"pending", "running"}
     \/ cur.t0 >= cur.instance.ExpiresAt /\ cur.reply.State \notin {"running", "pending"}

\* C11: when the provider reports the stored state and addresses, and the
\* record is unexpired and live pending/running, or expired and live neither
\* running nor pending, the pass calls neither stop nor start for it and
\* writes nothing to the store.
C11_NoDriftNoWrite ==
  C11_Case =>
    /\ cur.stop = "none"
    /\ cur.start = "none"
    /\ cur.updates = <<>>
    /\ cur.after = cur.before

\* An expired record reported stopped, as stored, was processed and left alone.
C11_Witness ==
  /\ C11_Case
  /\ cur.t0 > cur.instance.ExpiresAt
  /\ cur.reply.State = "stopped"
  /\ cur.updates = <<>>
  /\ cur.after = cur.instance

\* C12 as stated: at the instant now = ExpiresAt a record the provider
\* reports running or pending is sent Stop.
C12_Original ==
  ( /\ LiveKnown
    /\ cur.t0 = cur.instance.ExpiresAt
    /\ cur.reply.State \in {"running", "pending"} ) =>
    cur.stop # "none"

\* C12: the expiry boundary is exclusive.  Stop is called only when the clock
\* is past ExpiresAt, and then for every record reported running or pending;
\* at the instant now = ExpiresAt neither Stop nor Start is called.
C12_ExpiryBoundary ==
  LiveKnown =>
    /\ cur.stop # "none" => cur.t0 > cur.instance.ExpiresAt
    /\ (cur.t0 > cur.instance.ExpiresAt /\ cur.reply.State \in {"running", "pending"}) =>
         cur.stop # "none"
    /\ cur.t0 = cur.instance.ExpiresAt => (cur.stop = "none" /\ cur.start = "none")

\* A record reported running was processed at the instant of its expiry.
C12_Witness ==
  /\ LiveKnown
  /\ cur.t0 = cur.instance.ExpiresAt
  /\ cur.t1 = cur.t0
  /\ cur.reply.State = "running"
  /\ cur.stop = "none"

\* The provider methods a pass may call.
PassCalls == {"GetInstanceStatus", "StopInstance", "StartInstance"}

\* Every provider call made for the record processed last is a status
\* query, a stop or a start.
C15_Calls ==
  Processed => \A k \in 1..Len(cur.calls) : cur.calls[k] \in PassCalls

\* A step of a pass leaves the set of stored records as it is.
C15_Kept == pc = "pass" => DOMAIN store' = DOMAIN store

\* C15: a pass calls no provider method other than the status query, stop
\* and start (never terminate or create), and it neither deletes nor adds a
\* stored record.
C15_NeverTerminatesOrDeletes == [](C15_Calls) /\ [][C15_Kept]_vars

\* A pass over two records is over; it stopped the second one, and both are
\* still stored.
C15_Witness ==
  /\ pc = "pass"
  /\ queue = <<>>
  /\ Cardinality(listed) = 2
  /\ DOMAIN store = listed
  /\ cur.stop = "ok"
  /\ cur.calls = <<"GetInstanceStatus", "StopInstance">>

\* A change of a stored State follows a provider report of that state, a
\* successful stop (stopping) or a successful start (pending), for the
\* record being processed.
C19_StateWrite ==
  \A id \in DOMAIN store \cap DOMAIN store' :
    store'[id].State # store[id].State =>
      /\ pc = "pass"
      /\ cur'.id = id
      /\ \/ cur'.queried /\ ~cur'.reply.err /\ store'[id].State = cur'.reply.State
         \/ store'[id].State = "stopping" /\ cur'.stop = "ok"
         \/ store'[id].State = "pending" /\ cur'.start = "ok"

\* C19: the reconciliation loop changes a record's stored State only to the
\* state the provider has just reported for it, or to the optimistic
\* stopping / pending after a successful stop / start call.
C19_StateProvenance == [][C19_StateWrite]_vars

\* A record reported running, as stored, was stopped and is stored as stopping.
C19_Witness ==
  /\ LiveKnown
  /\ cur.before.State = "running"
  /\ cur.reply.State = "running"
  /\ cur.stop = "ok"
  /\ cur.after.State = "stopping"

\* The command or request at work is an extension whose store call succeeded.
ExtensionDone ==
  /\ req.phase = "done"
  /\ req.kind \in {"runExtend", "handleExtendInstance"}

\* The stored ExpiresAt of no record goes down in a step.
C13_Monotone ==
  \A id \in DOMAIN store \cap DOMAIN store' :
    store'[id].ExpiresAt >= store[id].ExpiresAt

\* C13: the stored ExpiresAt of a record never decreases, whatever the
\* extensions (command or web request, any accepted duration string), web
\* stop requests and reconciliation passes that write it.
C13_ExpiresAtMonotone == [][C13_Monotone]_vars

\* Stop is called only for a lease listed as expired, Start only for a lease
\* listed as unexpired.
C14_Decisions ==
  Processed =>
    /\ cur.stop # "none" => cur.t0 > cur.instance.ExpiresAt
    /\ cur.start # "none" => cur.instance.ExpiresAt > cur.t1

\* A pass begins by listing the store as it is at that moment: it gets the
\* current record of every stored id, or nothing at all when the file could
\* not be loaded.
C14_Listing ==
  (pc = "idle" /\ pc' = "pass") =>
    \/ queue' = <<>>
    \/ /\ Len(queue') = Cardinality(DOMAIN store)
       /\ \A id \in DOMAIN store : \E k \in 1..Len(queue') : queue'[k] = store[id]

C16_NoLostUpdate ==
  (ExtensionDone /\ req.id \in DOMAIN store) =>
    store[req.id].ExpiresAt = req.instance.ExpiresAt

\* C17: once Stop() has been called no new pass of the periodic driver
\* begins: a run goroutine that comes back from a pass to its select with
\* the context cancelled does not take another tick.
C17_NoPassAfterStop ==
  [][\A g \in Loops : (cancelled /\ loop[g] = "pass") => loop'[g] # "tick"]_vars

\* The number of passes that are executing.
Passes ==
  Cardinality({ g \in Loops : loop[g] = "pass" }) + (IF pc = "pass" THEN 1 ELSE 0)

\* C18: whatever the Start() and RunOnce() calls and timer ticks, at most
\* one reconciliation pass is executing at any moment.
C18_NoOverlap == Passes <= 1

\* The lease of the stored record id is past.
Expired(id) == id \in DOMAIN store /\ now > store[id].ExpiresAt

\* Stop has been called with success for the record id and it is stored as
\* stopping.
Stopped(id) ==
  /\ cur.id = id
  /\ cur.stop = "ok"
  /\ id \in DOMAIN store
  /\ store[id].State = "stopping"

\* C20 as stated: with fair ticking and a status query and stop call that
\* eventually succeed, an expired record the provider keeps reporting as
\* running or pending is eventually stopped and stored as stopping.
C20_Original == \A id \in Ids : Expired(id) ~> Stopped(id)

\* The status query, the stop call and the store writes made for a record
\* all succeed.
StopStored ==
  /\ StopSucceeds
  /\ \A k \in 1..Len(cur'.updates) : ~cur'.updates[k].err

\* C20: with fair ticking, a status query and stop call that eventually
\* succeed, store listings that eventually succeed and store writes that
\* eventually succeed with the stop call, an expired record the provider
\* keeps reporting as running or pending is eventually stopped and stored
\* as stopping.
C20_AutonomousStop ==
  (SF_vars(ListSucceeds) /\ SF_vars(StopStored)) =>
    (\A id \in Ids : Expired(id) ~> Stopped(id))

\* A run goroutine stopped the expired record and stored it as stopping.
C20_Witness ==
  /\ loop[1] = "pass"
  /\ Expired("i-1")
  /\ Stopped("i-1")
  /\ cur.reply.State \in {"running", "pending"}

\* The state of the listed record differs from the state the provider
\* reported for it.
Drift == LiveKnown /\ StateChanged(cur.reply, cur.instance)

\* The processing of the record called stop or start.
Acted == cur.stop # "none" \/ cur.start # "none"

\* C30 as stated: the processing of a record writes it to the store at most
\* once, and when stop or start is called no write of the record comes
\* before that call.
C30_Original ==
  Processed =>
    /\ Len(cur.updates) <= 1
    /\ Acted => \A k \in 1..Len(cur.updates) : cur.updates[k].ncalls = Len(cur.calls)

\* C30: the processing of a record queries first and writes the record at
\* most twice: once with the reported state and addresses, after the query
\* and before any stop or start call, exactly when the reported state
\* differs from the listed one; and once more with the state stopping or
\* pending, after a stop or start call that succeeded and only then.
C30_SyncThenActThenPersist ==
  Processed =>
    /\ Len(cur.updates) <= 2
    /\ Len(cur.updates) = (IF Drift THEN 1 ELSE 0) +
                          (IF cur.stop = "ok" \/ cur.start = "ok" THEN 1 ELSE 0)
    /\ Len(cur.calls) <= 2
    /\ cur.queried => cur.calls[1] = "GetInstanceStatus"
    /\ Acted => /\ Len(cur.calls) = 2
                /\ cur.calls[2] \in {"StopInstance", "StartInstance"}
    /\ Drift => /\ cur.updates[1].instance = Reported
                /\ cur.updates[1].ncalls = 1
    /\ (cur.stop = "ok" \/ cur.start = "ok") =>
         LET w == cur.updates[Len(cur.updates)] IN
           /\ w.ncalls = 2
           /\ w.instance.State = (IF cur.stop = "ok" THEN "stopping" ELSE "pending")

\* C30 witness: the reported state differed from the listed one and the stop
\* call succeeded: the record was written before the call and after it.
C30_Witness ==
  /\ Drift
  /\ cur.stop = "ok"
  /\ Len(cur.updates) = 2
  /\ cur.updates[1].ncalls = 1
  /\ cur.updates[2].ncalls = 2
  /\ WritesOk

\* What the processing of a record selected: whether it wrote a drift sync
\* (a write made before any stop or start call) and which of stop and start
\* it called.
Selected(o) ==
  << Len(o.updates) >= 1 /\ o.updates[1].ncalls <= 1, o.stop # "none", o.start # "none" >>

\* C28: the action selected for a record (none, sync, stop, start) is a
\* function of the listed record, the provider's reply and the clock
\* readings alone: processing the same record with the same reply at the
\* same clock readings selects the same action whatever the store holds,
\* whatever earlier passes did and whether the calls made succeed or fail.
C28_DeterministicDecision ==
  Processed =>
    LET outs == { o \in processInstanceWith(store, cur.t0, cur.instance, cur.reply) :
                    o.now = cur.t1 }
    IN /\ outs # {}
       /\ \A o \in outs : Selected(o) = Selected(cur)

\* C28 witness: the write of the drift sync failed and the expired record
\* was sent Stop all the same, in a pass that had processed another record
\* before.
C28_Witness ==
  /\ Drift
  /\ cur.updates[1].err
  /\ cur.stop # "none"
  /\ Cardinality(processed) = 2

\* The number of times the provider method m was called for the record
\* processed last.
CallsOf(m) == Cardinality({ k \in 1..Len(cur.calls) : cur.calls[k] = m })

\* C22: when the stop call made for a record failed in one pass of the
\* periodic driver and the provider reports the record as running or pending
\* in the next pass that processes it, that pass calls stop for it again,
\* exactly once and with no start call, however many stop calls failed
\* before.
C22_FailedStopRetried ==
  ( /\ Processed
    /\ cur.prevStop = "err"
    /\ cur.queried
    /\ ~cur.reply.err
    /\ cur.reply.State \in {"running", "pending"} ) =>
      /\ cur.stop # "none"
      /\ CallsOf("StopInstance") = 1
      /\ cur.start = "none"

\* C22 witness: the stop call failed in one pass and was made again, and
\* failed again, in the next.
C22_Witness ==
  /\ cur.prevStop = "err"
  /\ cur.stop = "err"
  /\ cur.reply.State \in {"running", "pending"}
  /\ CallsOf("StopInstance") = 1

\* The write call op of the FileStorage object h returns in this step.
Returns(h, op) ==
  /\ fs[h].phase = "loaded"
  /\ fs[h].op = op
  /\ fs'[h].phase = "idle"

\* The record set st with instance put under its id.
Upserted(st, instance) ==
  [id \in DOMAIN st \cup {instance.ID} |-> IF id = instance.ID THEN instance ELSE st[id]]

\* A SaveInstance call that returns no error leaves the store with the
\* saved instance under its id and every other record as it was.
C23_Save ==
  (Returns("cli", "SaveInstance") /\ ~fs'["cli"].err) =>
    store' = Upserted(store, fs["cli"].instance)

\* GetInstance returns the stored record of a stored id and ListInstances
\* returns the stored records, each once.
C23_Reads ==
  /\ \A id \in DOMAIN store :
       /\ \E g \in GetInstance(store, id) : ~g.err
       /\ \A g \in GetInstance(store, id) : ~g.err => g.instance = store[id]
  /\ \A l \in ListInstances(store) :
       /\ Len(l) = Cardinality(DOMAIN store)
       /\ \A id \in DOMAIN store : \E k \in 1..Len(l) : l[k] = store[id]

\* C23: the store is an upsert map keyed by id: every SaveInstance call that
\* succeeds puts the saved instance under its id and keeps every other
\* record, GetInstance returns the stored record of a saved id and
\* ListInstances returns exactly the stored records (none for a file never
\* written).
C23_UpsertMap == [][C23_Save]_vars /\ [](C23_Reads)

\* An UpdateInstance call never changes the set of stored ids; for a stored
\* id it either fails and changes nothing or replaces the record, which
\* GetInstance then returns; for an id that is not stored it fails and
\* changes nothing.
C24_Update ==
  Returns("cli", "UpdateInstance") =>
    LET instance == fs["cli"].instance IN
      /\ DOMAIN store' = DOMAIN store
      /\ fs'["cli"].err => store' = store
      /\ instance.ID \notin DOMAIN store => fs'["cli"].err
      /\ ~fs'["cli"].err =>
           /\ store' = [store EXCEPT ![instance.ID] = instance]
           /\ \E g \in GetInstance(store', instance.ID) : ~g.err
           /\ \A g \in GetInstance(store', instance.ID) :
                ~g.err => /\ g.instance.State = instance.State
                          /\ g.instance.PublicIP = instance.PublicIP
                          /\ g.instance.PrivateIP = instance.PrivateIP

\* C24: UpdateInstance replaces an existing record and never creates one:
\* after a successful call for a stored id GetInstance returns the updated
\* fields, and a call for an id that is not stored returns an error and
\* leaves the store as it was.
C24_UpdateNeverCreates == [][C24_Update]_vars

\* C24 witness: UpdateInstance was called for an id the store does not hold,
\* returned an error, and the store still holds its other record only.
C24_Witness ==
  /\ fs["cli"].op = "UpdateInstance"
  /\ fs["cli"].phase = "idle"
  /\ fs["cli"].err
  /\ fs["cli"].instance.ID \notin DOMAIN store
  /\ DOMAIN store # {}

\* A DeleteInstance call that succeeds takes the named id out of the store
\* and leaves every other record as it was; one that fails changes nothing.
C25_Delete ==
  Returns("cli", "DeleteInstance") =>
    LET id == fs["cli"].instance.ID IN
      /\ fs'["cli"].err => store' = store
      /\ ~fs'["cli"].err =>
           /\ DOMAIN store' = DOMAIN store \ {id}
           /\ \A other \in DOMAIN store' : store'[other] = store[other]
           /\ \A g \in GetInstance(store', id) : g.err
           /\ \A l \in ListInstances(store') : \A k \in 1..Len(l) : l[k].ID # id

\* DeleteInstance can succeed for an id the store does not hold, and then
\* changes no record.
C25_Absent ==
  \A id \in Ids \ DOMAIN store :
    /\ \E u \in DeleteInstance(store, id) : ~u.err
    /\ \A u \in DeleteInstance(store, id) : u.store = store

\* C25: DeleteInstance removes exactly the named record: after a successful
\* call GetInstance fails for the id, ListInstances does not contain it and
\* every other record is unchanged; deleting an id that is not stored
\* succeeds and changes no record.
C25_DeleteRemovesExactlyOne == [][C25_Delete]_vars /\ [](C25_Absent)

\* C25 witness: a DeleteInstance call succeeded, its id is not in the store
\* and the other record is.
C25_Witness ==
  /\ fs["cli"].op = "DeleteInstance"
  /\ fs["cli"].phase = "idle"
  /\ ~fs["cli"].err
  /\ fs["cli"].instance.ID \notin DOMAIN store
  /\ DOMAIN store # {}

\* C26: single-writer discipline: at no time are two write calls on the
\* storage file, of whichever FileStorage objects, both between their load
\* and their save.
C26_SingleWriter ==
  Cardinality({ h \in Handles : fs[h].phase = "loaded" }) <= 1

\* An extension by d that is written to the store in this step has added d
\* to ExpiresAt and to Duration of the record it read, and a record that
\* satisfied ExpiresAt = LaunchTime + Duration still does.
C27_Extension ==
  (req.phase = "loaded" /\ ExtensionDone') =>
    /\ req'.instance.ExpiresAt = req.instance.ExpiresAt + req.d
    /\ req'.instance.Duration = req.instance.Duration + req.d
    /\ req.instance.ExpiresAt = req.instance.LaunchTime + req.instance.Duration =>
         req'.instance.ExpiresAt = req'.instance.LaunchTime + req'.instance.Duration

\* C27: every record is created with ExpiresAt = LaunchTime + Duration, and
\* every extension, by the command or by the web request, adds its duration
\* to both ExpiresAt and Duration, which keeps the equation.
C27_LeaseArithmetic ==
  [][C27_Extension]_vars

\* The web stop request at work has written ExpiresAt = now to the store and
\* no command or request has begun since.
ManualStopDone ==
  /\ req.kind = "handleStopInstance"
  /\ req.phase = "done"

\* A pass that processes the record of a finished web stop request does not
\* call Start for it.
C29_Step ==
  ( /\ ManualStopDone
    /\ req' = req
    /\ pc = "pass"
    /\ queue' # queue
    /\ cur'.id = req.id ) =>
      cur'.start = "none"

\* C29: a manual stop is not undone by the service: once the web stop
\* request has succeeded (provider stop called, ExpiresAt set to the clock in
\* the store) and as long as no extension follows, no reconciliation pass
\* calls Start for the instance, however the request and the passes
\* interleave.
C29_ManualStopNotUndone == [][C29_Step]_vars

\* The extend command has written an extension of a record stored as
\* stopping or stopped, and the lease it wrote is still unexpired.
ExtendedWhileStopped ==
  /\ ExtensionDone
  /\ req.kind = "runExtend"
  /\ req.instance.State \in {"stopping", "stopped"}
  /\ req.instance.ExpiresAt > now

\* The run goroutine has called Start for the record of the command.
StartCalled == cur.id = req.id /\ cur.start # "none"

\* C21: when a record stopped on expiry is extended by the extend command so
\* that ExpiresAt is in the future, then with fair ticking, store listings
\* and status queries that eventually succeed, the service eventually calls
\* Start for it, unless the clock reaches the new ExpiresAt or another
\* command begins first.
C21_ExtensionRestarts ==
  ExtendedWhileStopped ~>
    (StartCalled \/ now >= req.instance.ExpiresAt \/ ~ExtensionDone)

\* The extension is in the store and no pass is at work on a listing made
\* before it.
ExtensionSettled ==
  /\ ExtendedWhileStopped
  /\ store[req.id] = req.instance
  /\ loop[1] # "pass"

\* The restart follows when no pass was in flight across the extension.
C21_SettledRestarts ==
  ExtensionSettled ~>
    (StartCalled \/ now >= req.instance.ExpiresAt \/ ~ExtensionDone)

\* The states for which the decision has an action.
ActionStates == {"running", "pending", "stopped", "stopping"}

\* The provider reported, for a record listed as non-terminal, a state that
\* needs no action.
C31_Case == LiveKnown /\ cur.reply.State \notin ActionStates

\* C31 as stated: in that case the stored state is the reported one after
\* the pass and neither Stop nor Start was called.
C31_Original ==
  C31_Case =>
    /\ cur.after.State = cur.reply.State
    /\ ~Acted

\* C31: a record listed as non-terminal whose reported state is outside
\* running, pending, stopped and stopping gets one store write, of the record
\* with the reported state, which is the stored state afterwards when the
\* write succeeds, and neither Stop nor Start, whether or not the lease is
\* expired; an expired record reported stopped or stopping gets no Stop and
\* an unexpired record reported running or pending gets no Start.
C31_NoActionOnlySync ==
  /\ C31_Case =>
       /\ ~Acted
       /\ Len(cur.calls) = 1
       /\ Len(cur.updates) = 1
       /\ cur.updates[1].instance = Reported
       /\ ~cur.updates[1].err => cur.after.State = cur.reply.State
       /\ cur.updates[1].err => cur.after = cur.before
  /\ (LiveKnown /\ IsExpired(cur.instance, cur.t0)
        /\ cur.reply.State \in {"stopped", "stopping"}) => ~Acted
  /\ (LiveKnown /\ ~IsExpired(cur.instance, cur.t0)
        /\ cur.reply.State \in {"running", "pending"}) => ~Acted

\* C31 witness: an expired record stored as running was reported terminated:
\* it was synced to terminated and got no Stop.
C31_Witness ==
  /\ C31_Case
  /\ IsExpired(cur.instance, cur.t0)
  /\ cur.before.State = "running"
  /\ cur.reply.State = "terminated"
  /\ cur.after.State = "terminated"
  /\ ~Acted

\* C36 as stated: a SaveInstance call that returns leaves every stored record
\* with another id present and unchanged, in every state of the file.
C36_SaveKeepsOthers ==
  [][\A h \in Handles :
       Returns(h, "SaveInstance") =>
         \A id \in DOMAIN store \ {fs[h].instance.ID} :
           /\ id \in DOMAIN store'
           /\ store'[id] = store[id]]_vars

\* The pass in progress listed nothing.
EmptyListing == pc = "pass" /\ listed = {}

\* C37: ListInstances has the empty listing among its results whatever the
\* store holds (a failed load is returned as an empty list, not as an
\* error), so the listing step of a pass always enters the loop over the
\* listed records, with either nothing or every stored record; a pass that
\* listed nothing processes no record, makes no provider call and leaves the
\* store as it is.
C37_ListingNeverFails ==
  /\ [](<<>> \in ListInstances(store))
  /\ [](EmptyListing =>
          /\ queue = <<>>
          /\ processed = {}
          /\ cur = NoCur
          /\ stopCalls = ZeroCalls
          /\ startCalls = ZeroCalls)
  /\ [][/\ (pc = "idle" /\ pc' # "idle") =>
              /\ pc' = "pass"
              /\ queue' \in ListInstances(store)
              /\ listed' \in {{}, DOMAIN store}
        /\ EmptyListing =>
              /\ store' = store
              /\ stopCalls' = stopCalls
              /\ startCalls' = startCalls
              /\ pc' = "pass" => (queue' = <<>> /\ cur' = NoCur)]_vars

\* C37 witness: a pass over a store with two records listed nothing.
C37_Witness ==
  /\ EmptyListing
  /\ DOMAIN store = Ids

\* The fields of a stored record that a pass may change.
PassFields == {"State", "PublicIP", "PrivateIP"}

\* C34: a step of a reconciliation pass (no other writer runs) keeps the set
\* of stored ids, and of every stored record it changes at most State,
\* PublicIP and PrivateIP: ID, ExpiresAt, Duration and LaunchTime stay as
\* they are.
C34_PassFrame ==
  [][/\ DOMAIN store' = DOMAIN store
     /\ \A id \in DOMAIN store :
          \A f \in DOMAIN store[id] \ PassFields : store'[id][f] = store[id][f]]_vars

\* C34 witness: a pass wrote a record, changing its state and its addresses.
C34_Witness ==
  /\ pc = "pass"
  /\ cur.id # ""
  /\ cur.updates # <<>>
  /\ cur.after.State # cur.before.State
  /\ cur.after.PublicIP # cur.before.PublicIP
  /\ cur.after.ExpiresAt = cur.before.ExpiresAt

\* What a provider that follows its accepted calls (MockProvider) reports
\* next for the record processed last: stopping after an accepted stop,
\* pending after an accepted start, otherwise what it reported before.
NextReply ==
  IF cur.stop = "ok" THEN [cur.reply EXCEPT !.State = "stopping"]
  ELSE IF cur.start = "ok" THEN [cur.reply EXCEPT !.State = "pending"]
  ELSE cur.reply

\* The processing of a record made no provider call besides the status
\* query and no store write.
NoOp(o) == o.stop = "none" /\ o.start = "none" /\ o.updates = <<>>

\* A record was processed without a failed call while the clock stood still,
\* and nothing else has touched its stored record.
FirstPassDone ==
  /\ pc = "pass"
  /\ cur.id # ""
  /\ ~Failed(cur)
  /\ cur.t0 = cur.t1
  /\ now = cur.t1
  /\ cur.id \in DOMAIN store
  /\ store[cur.id] = cur.after

\* C38: after a record was processed without failures, processing it again
\* at the same clock reading, with the stored record as listed and a provider
\* that reports stopping after an accepted stop and pending after an accepted
\* start, makes no stop/start call and no store write and leaves the store
\* as it is; and a stored record that is stopped, expired and reported
\* stopped is processed without any call or write at every later clock
\* reading, whatever addresses are reported.
C38_Idempotent ==
  /\ FirstPassDone =>
       \A o \in processInstanceWith(store, now, store[cur.id], NextReply) :
         o.now = now => (NoOp(o) /\ o.store = store)
  /\ \A id \in DOMAIN store :
       (store[id].State = "stopped" /\ IsExpired(store[id], now)) =>
         \A t \in now..MaxTime, reply \in ProviderReplies :
           (~reply.err /\ reply.State = "stopped") =>
             \A o \in processInstanceWith(store, t, store[id], reply) :
               NoOp(o) /\ o.store = store

\* C38 witness: the pass stopped i-1 and wrote it as stopping, while i-2 is
\* stored as stopped with an expired lease.
C38_Witness ==
  /\ FirstPassDone
  /\ cur.id = "i-1"
  /\ cur.stop = "ok"
  /\ cur.after.State = "stopping"
  /\ "i-2" \in DOMAIN store
  /\ store["i-2"].State = "stopped"
  /\ IsExpired(store["i-2"], now)

\* The run goroutine is not running: it was never started or has returned.
LoopOver == loop[1] \in {"none", "exited"}

\* C33: once Stop() has been called the run goroutine started by Start()
\* eventually returns, whatever pass it is in when the context is cancelled;
\* Stop() can be called in every state in which it has not been called, and
\* its step leaves a goroutine that is inside a pass where it is, with the
\* records it has still to process.
C33_StopTerminates ==
  /\ cancelled ~> LoopOver
  /\ [](~cancelled => ENABLED Stop)
  /\ [][(~cancelled /\ cancelled') =>
          /\ lq' = lq
          /\ loop[1] \in {"tick", "pass"} => loop'[1] = loop[1]]_vars

\* C33 witness: Stop() has returned while the run goroutine is inside a pass
\* with a record still to process.
C33_Witness ==
  /\ cancelled
  /\ loop[1] = "pass"
  /\ lq[1] # <<>>

\* C35: a record that is not in the store is not in it after the next step
\* either: none of the scheduler's pass and the web requests that sync
\* records, having read a record before its deletion, writes it back.
C35_NeverResurrected ==
  [][\A id \in Ids : id \notin DOMAIN store => id \notin DOMAIN store']_vars

\* A step of a reconciliation pass never adds a record to the store, whatever
\* the web requests did since the pass listed it.
C35_PassNeverResurrects ==
  [][pc = "pass" /\ processed' # processed => DOMAIN store' \subseteq DOMAIN store]_vars

\* What the world does for one record during a pass: the provider's reply to
\* the status query, the result of the stop or start call if one is made,
\* and whether the store writes of the record fail.
RecordEnvs == [reply : ProviderReplies, act : {"ok", "err"}, werr : BOOLEAN]

\* The outcomes of processing instance wholly at clock reading t in the
\* world e.
ProcessAt(st, t, instance, e) ==
  { o \in processInstanceWith(st, t, instance, e.reply) :
      /\ o.now = t
      /\ o.stop \in {"none", e.act}
      /\ o.start \in {"none", e.act}
      /\ \A k \in 1..Len(o.updates) : o.updates[k].err = e.werr }

\* The results of a pass over the listing q started with store contents st,
\* when the k-th record is processed at clock reading times[k] and the world
\* does env[id] for record id: the store contents after the pass and, per
\* record, whether stop and whether start was called (calls).
RECURSIVE PassFrom(_, _, _, _, _)
PassFrom(st, q, times, env, calls) ==
  IF q = <<>>
    THEN {[store |-> st, calls |-> calls]}
    ELSE UNION { PassFrom(o.store, Remaining(q, o), Tail(times), env,
                          [calls EXCEPT ![Head(q).ID] = <<o.stop # "none", o.start # "none">>])
                 : o \in ProcessAt(st, Head(times), Head(q), env[Head(q).ID]) }

PassResults(q, times, env) ==
  PassFrom(store, q, times, env, [id \in Ids |-> <<FALSE, FALSE>>])

\* A pass has listed two records, i-1 first, and processed none yet.
PassOfTwo ==
  /\ pc = "pass"
  /\ processed = {}
  /\ Len(queue) = 2
  /\ queue[1].ID = "i-1"

\* The listing of the pass in the other order.
Swapped == <<queue[2], queue[1]>>

\* The clock readings of the two processings of a pass that starts now.
ClockReadings == { <<t1, t2>> : t1 \in now..MaxTime, t2 \in now..MaxTime } \cap
                 { ts \in Seq(0..MaxTime) : Len(ts) = 2 /\ ts[1] <= ts[2] }

\* No listed lease is met on different sides of its expiry by the two clock
\* readings.
SteadyLeases(times) ==
  \A k \in 1..2 :
    /\ IsExpired(queue[k], times[1]) = IsExpired(queue[k], times[2])
    /\ (queue[k].ExpiresAt > times[1]) = (queue[k].ExpiresAt > times[2])

\* C32 as stated: whatever the provider and the store do for each record and
\* however the clock advances during the pass, the pass over the two listed
\* records has the same results in both orders.
C32_Original ==
  PassOfTwo =>
    \A times \in ClockReadings, env \in [Ids -> RecordEnvs] :
      PassResults(queue, times, env) = PassResults(Swapped, times, env)

\* C32: whatever the provider and the store do for each record, when no
\* listed lease expires between the clock readings of the pass, the pass over
\* the two listed records has one result, the same in both orders: the same
\* store contents and, per record, the same stop and start calls.
C32_OrderIrrelevant ==
  PassOfTwo =>
    \A times \in ClockReadings, env \in [Ids -> RecordEnvs] :
      SteadyLeases(times) =>
        /\ Cardinality(PassResults(queue, times, env)) = 1
        /\ PassResults(queue, times, env) = PassResults(Swapped, times, env)

\* C32 witness: a pass lists two records of which, with the clock standing
\* still, the first is stopped and written as stopping and the second is
\* synced to the reported state.
C32_Witness ==
  /\ PassOfTwo
  /\ \E env \in [Ids -> RecordEnvs] :
       \E r \in PassResults(queue, <<now, now>>, env) :
         /\ r.calls[queue[1].ID] = <<TRUE, FALSE>>
         /\ r.calls[queue[2].ID] = <<FALSE, FALSE>>
         /\ r.store[queue[1].ID].State = "stopping"
         /\ r.store[queue[2].ID].State # store[queue[2].ID].State
====
